---------------------------- MODULE Spec2Model ----------------------------
(***************************************************************************)
(* A model of the two command-line tools of bg-remover-products:           *)
(*   src/add_bg.py     composites a transparent product on a background,   *)
(*   src/remove_bg.py  strips the background with a segmentation model.    *)
(*                                                                         *)
(* Three specifications share the module:                                  *)
(*   SpecFit   the fitting and placing arithmetic of add_background,       *)
(*   SpecName  the derivation of the output path of add_background,        *)
(*   Spec      main(), process_batch() and the per-file pipeline of both   *)
(*             tools.                                                      *)
(*                                                                         *)
(* Sizes are pairs <<width, height>>.  A string is the sequence of its     *)
(* characters.  Python's None and the empty string are both the empty      *)
(* sequence: the code only ever tests them for truthiness.                 *)
(***************************************************************************)
EXTENDS Integers, Sequences, FiniteSets, TLC

VARIABLES
    \* ---- add_background, fitting and placing (SpecFit)
    bg,              \* background.size
    prod,            \* product.size as decoded
    resize_product,  \* the flag
    center,          \* the flag
    fitPc,           \* "opened" | "resized" | "pasted" | "failed"
    req,             \* (new_width, new_height) handed to resize, <<>> if none
    cur,             \* product.size after the resize step
    offset,          \* (x, y) of the paste, <<>> before it
    \* ---- add_background, output path (SpecName)
    product_path,    \* the product path
    output_dir,      \* the output directory, <<>> when None or ""
    namePc,          \* "start" | "saved"
    output_path,     \* the path handed to save, <<>> before it
    \* ---- main and process_batch of either tool (Spec)
    tool,            \* "remove_bg" | "add_bg"
    argv,            \* sys.argv[1:], a sequence of strings
    globFiles,       \* what glob.glob(pattern) returns
    inputExists,     \* os.path.exists(the literal input)
    bgExists,        \* os.path.exists(background_path)
    pc,              \* "main" | "batch" | "loop" | "single" | "done" | "exit"
    files,           \* process_batch's files
    idx,             \* position of the for loop in files (1-based)
    successful,      \* process_batch's counter
    failed,          \* process_batch's counter
    sessionsCreated, \* number of new_session("u2net") calls so far
    session,         \* the handle held (0: none), handles are numbered
    calls,           \* the per-file pipeline invocations, in order
    written,         \* the output paths saved, in order
    dirsMade,        \* the directories os.makedirs was called on
    decoded,         \* number of Image.open calls
    exitStatus       \* -1 while running, then the process's exit status

fitVars   == <<bg, prod, resize_product, center, fitPc, req, cur, offset>>
nameVars  == <<product_path, output_dir, namePc, output_path>>
batchVars == <<tool, argv, globFiles, inputExists, bgExists, pc, files, idx,
               successful, failed, sessionsCreated, session, calls, written,
               dirsMade, decoded, exitStatus>>
vars      == <<fitVars, nameVars, batchVars>>

-----------------------------------------------------------------------------
(* Bounds of the model. *)

\* Widths and heights range over 1..MaxDim (and the probes and scenarios).
MaxDim == 6

\* The longest list glob.glob returns.
MaxFiles == 3

-----------------------------------------------------------------------------
(***************************************************************************)
(* Double-precision arithmetic.  The code computes                         *)
(*     scale = min(max_width / prod_width, max_height / prod_height)       *)
(*     int(prod_width * scale)                                             *)
(* in IEEE-754 binary64.  For integers p, a, b the value of                *)
(* int(p * (a / b)) is computed here exactly, with integers only: the      *)
(* quotient a/b is rounded to 53 significant bits (to nearest, ties to     *)
(* even), the product is rounded again, and the result is truncated.       *)
(***************************************************************************)

\* Bits after the leading one in a binary64 significand.
MantissaBits == 52

RECURSIVE Pow2(_)
Pow2(n) == IF n <= 0 THEN 1 ELSE 2 * Pow2(n - 1)

RECURSIVE FloorLog2(_)
FloorLog2(n) == IF n <= 1 THEN 0 ELSE 1 + FloorLog2(n \div 2)

IsPow2(n) == n = Pow2(FloorLog2(n))

\* (x * 2^n) mod m, without forming x * 2^n.
RECURSIVE MulPow2Mod(_, _, _)
MulPow2Mod(x, n, m) == IF n = 0 THEN x % m ELSE MulPow2Mod((2 * x) % m, n - 1, m)

\* The least t with a * 2^t >= b  (a >= 1).
RECURSIVE ShiftUp(_, _)
ShiftUp(a, b) == IF a >= b THEN 0 ELSE 1 + ShiftUp(2 * a, b)

\* The binary exponent j of a / b:  2^j <= a / b < 2^(j+1)  (a, b >= 1).
QuotExp(a, b) == IF a >= b THEN FloorLog2(a \div b) ELSE 0 - ShiftUp(a, b)

\* The sign of  fl(p * fl(a / b)) - tt / 2,  where tt / 2 = p * a / b exactly
\* and tt is a positive integer: -1, 0 or 1.
FlSign(p, a, b, tt) ==
    LET j    == QuotExp(a, b)
        e    == MantissaBits - j
        r    == MulPow2Mod(a, e, b)
        odd  == MulPow2Mod(a, e, 2 * b) >= b
        down == (2 * r < b) \/ (2 * r = b /\ ~odd)
        err  == IF down THEN r ELSE b - r
        k    == FloorLog2(tt) - 1
        half == b * Pow2(k - j)
    IN  IF r = 0 THEN 0
        ELSE IF down
             THEN IF (IF IsPow2(tt) THEN 4 ELSE 2) * p * err > half THEN -1 ELSE 0
             ELSE IF 2 * p * err > half THEN 1 ELSE 0

\* round(p * (a / b)): Python's round of the double, ties to even.
RoundMulDiv(p, a, b) ==
    IF a = 0 THEN 0
    ELSE IF (2 * p * a) % b # 0 THEN (2 * p * a + b) \div (2 * b)
    ELSE LET m == (2 * p * a) \div b
             n == m \div 2
         IN  IF m % 2 = 0 THEN n
             ELSE LET s == FlSign(p, a, b, m)
                  IN  IF s < 0 THEN n
                      ELSE IF s > 0 THEN n + 1
                      ELSE IF n % 2 = 0 THEN n ELSE n + 1

\* int(p * (a / b)): truncation of the double.
IntMulDiv(p, a, b) ==
    IF a = 0 THEN 0
    ELSE IF (p * a) % b # 0 THEN (p * a) \div b
    ELSE LET n == (p * a) \div b
         IN  IF FlSign(p, a, b, 2 * n) < 0 THEN n - 1 ELSE n

-----------------------------------------------------------------------------
(* add_background: the fitting arithmetic. *)

\* int(bg_width * 0.8).  The double 0.8 exceeds 4/5 by less than 2^-54, so
\* the product truncates to floor(4 * b / 5) for every b below 2^50.
MaxSide(b) == (4 * b) \div 5

\* With max instead of min the product would be fitted to the looser side.
ScaleMax(mw, pw, mh, ph) ==
    IF mw * ph >= mh * pw THEN <<mw, pw>> ELSE <<mh, ph>>

\* scale = min(max_width / prod_width, max_height / prod_height), kept as
\* <<numerator, denominator>>.  min returns its first argument on a tie.
Scale(mw, pw, mh, ph) ==
    IF mw * ph <= mh * pw THEN <<mw, pw>> ELSE <<mh, ph>>

\* Resizing whenever the scale is not 1 would also enlarge.
ScaleNotOne(s) == s[1] # s[2]

\* scale < 1
ScaleBelowOne(s) == s[1] < s[2]

\* (round(prod_width * scale), round(prod_height * scale))
NewSizeRounded(p, s) ==
    <<RoundMulDiv(p[1], s[1], s[2]), RoundMulDiv(p[2], s[1], s[2])>>

\* (int(prod_width * scale), int(prod_height * scale))
NewSize(p, s) ==
    <<IntMulDiv(p[1], s[1], s[2]), IntMulDiv(p[2], s[1], s[2])>>

\* Image.resize raises ValueError ("height and width must be > 0") for a
\* side below 1.
ResizeRaises(size) == size[1] < 1 \/ size[2] < 1

\* Division truncating toward zero, as C's / would.
CenterTrunc(b, p) ==
    IF b >= p THEN (b - p) \div 2 ELSE 0 - ((p - b) \div 2)

\* (bg_width - prod_width) // 2
CenterCoord(b, p) == (b - p) \div 2


\* Widths and heights beyond 1..MaxDim where the double product of an exact
\* integer falls below it: 22 * (15 / 22) < 15 on a background 19 wide.
ProbeDims == {19, 22}

Dims == (1 .. MaxDim) \cup ProbeDims

\* <<bg_width, bg_height, prod_width, prod_height>> of the documented
\* scenarios.
ScenarioInputs == {<<1000, 800, 900, 900>>, <<500, 500, 100, 100>>}

FitInputs == (Dims \X Dims \X Dims \X Dims) \cup ScenarioInputs

IdleFit ==
    /\ bg = <<>> /\ prod = <<>> /\ resize_product = TRUE /\ center = TRUE
    /\ fitPc = "idle" /\ req = <<>> /\ cur = <<>> /\ offset = <<>>

IdleName ==
    /\ product_path = <<>> /\ output_dir = <<>>
    /\ namePc = "idle" /\ output_path = <<>>

IdleBatch ==
    /\ tool = "none" /\ argv = <<>> /\ globFiles = <<>>
    /\ inputExists = FALSE /\ bgExists = FALSE /\ pc = "idle"
    /\ files = <<>> /\ idx = 0 /\ successful = 0 /\ failed = 0
    /\ sessionsCreated = 0 /\ session = 0 /\ calls = <<>> /\ written = <<>>
    /\ dirsMade = {} /\ decoded = 0 /\ exitStatus = -1

\* Both images are open: any sizes, any flags.
InitFit ==
    /\ \E t \in FitInputs : bg = <<t[1], t[2]>> /\ prod = <<t[3], t[4]>>
    /\ resize_product \in BOOLEAN
    /\ center \in BOOLEAN
    /\ fitPc = "opened"
    /\ req = <<>>
    /\ cur = prod
    /\ offset = <<>>
    /\ IdleName
    /\ IdleBatch

\* The resize step.
FitResize ==
    /\ fitPc = "opened"
    /\ IF resize_product
       THEN LET s == Scale(MaxSide(bg[1]), prod[1], MaxSide(bg[2]), prod[2])
                n == NewSize(prod, s)
            IN  IF ScaleBelowOne(s)
                THEN /\ req' = n
                     /\ IF ResizeRaises(n)
                        THEN fitPc' = "failed" /\ cur' = cur
                        ELSE fitPc' = "resized" /\ cur' = n
                ELSE fitPc' = "resized" /\ UNCHANGED <<req, cur>>
       ELSE fitPc' = "resized" /\ UNCHANGED <<req, cur>>
    /\ UNCHANGED <<bg, prod, resize_product, center, offset>>
    /\ UNCHANGED <<nameVars, batchVars>>

\* The position and the paste.
FitPaste ==
    /\ fitPc = "resized"
    /\ offset' = IF center
                 THEN <<CenterCoord(bg[1], cur[1]), CenterCoord(bg[2], cur[2])>>
                 ELSE <<0, 0>>
    /\ fitPc' = "pasted"
    /\ UNCHANGED <<bg, prod, resize_product, center, req, cur>>
    /\ UNCHANGED <<nameVars, batchVars>>

NextFit == FitResize \/ FitPaste

SpecFit == InitFit /\ [][NextFit]_vars

-----------------------------------------------------------------------------
(* Properties of the fitting arithmetic, checked under SpecFit. *)

\* The product exceeds 80% of the background on a side: p > floor(0.8 * b)
\* is 5 * p > 4 * b for integers.
TooBig == 5 * prod[1] > 4 * bg[1] \/ 5 * prod[2] > 4 * bg[2]

\* C1: with resize_product, the product that is pasted is at most
\* floor(0.8 * bw) wide and floor(0.8 * bh) high, resized or not.
C1_PastedWithinBound ==
    (fitPc = "pasted" /\ resize_product)
        => (5 * cur[1] <= 4 * bg[1] /\ 5 * cur[2] <= 4 * bg[2])

\* A downscaled product is pasted whose width is the largest the bound allows.
C1_Witness ==
    /\ fitPc = "pasted" /\ resize_product
    /\ req # <<>> /\ cur = req /\ cur[2] < prod[2]
    /\ 5 * (cur[1] + 1) > 4 * bg[1]

\* The scale as the claim defines it: the smaller of the two quotients.
IsMinScale(s) ==
    LET mw == (4 * bg[1]) \div 5
        mh == (4 * bg[2]) \div 5
    IN  /\ s \in {<<mw, prod[1]>>, <<mh, prod[2]>>}
        /\ s[1] * prod[1] <= mw * s[2]
        /\ s[1] * prod[2] <= mh * s[2]

\* n is the integer nearest to p * s, a tie going to the even one.
IsRounded(n, p, s) ==
    LET d == 2 * p * s[1] - 2 * n * s[2]
    IN  /\ 0 - s[2] <= d /\ d <= s[2]
        /\ (d = s[2] \/ d = 0 - s[2]) => n % 2 = 0

\* C2 as stated: whenever scale < 1 the product is resized to
\* (round(pw * scale), round(ph * scale)).
C2_ResizedToRounded ==
    (fitPc \in {"resized", "pasted"} /\ resize_product /\ TooBig)
        => \E s \in (0 .. bg[1]) \X {prod[1]} \cup (0 .. bg[2]) \X {prod[2]} :
                /\ IsMinScale(s)
                /\ IsRounded(cur[1], prod[1], s)
                /\ IsRounded(cur[2], prod[2], s)

\* The <<p, numerator, denominator>> of the model's sizes where p * scale is
\* an integer N exactly and the double product is below N.
DoubleDips == {<<22, 15, 22>>}

\* n is int(p * s): the floor of p * s, one less at a dip.
IsTruncated(n, p, s) ==
    IF <<p, s[1], s[2]>> \in DoubleDips
    THEN (n + 1) * s[2] = p * s[1]
    ELSE n * s[2] <= p * s[1] /\ p * s[1] < (n + 1) * s[2]

\* C2 amended: whenever scale < 1 the size handed to resize is
\* (int(pw * scale), int(ph * scale)), the truncation of the double product;
\* background 1000x800 and product 900x900 give 640x640.
C2_ResizedToTruncated ==
    /\ (fitPc # "opened" /\ resize_product /\ TooBig)
        => /\ req # <<>>
           /\ \E s \in (0 .. bg[1]) \X {prod[1]} \cup (0 .. bg[2]) \X {prod[2]} :
                /\ IsMinScale(s)
                /\ IsTruncated(req[1], prod[1], s)
                /\ IsTruncated(req[2], prod[2], s)
    /\ (fitPc # "opened" /\ resize_product
            /\ bg = <<1000, 800>> /\ prod = <<900, 900>>)
        => req = <<640, 640>>
    /\ (fitPc # "opened" /\ ~(resize_product /\ TooBig)) => req = <<>>

\* A downscale where truncating and rounding differ: 5x2 on 5x5 gives 4x1.
C2_Witness ==
    /\ fitPc = "pasted" /\ resize_product
    /\ bg = <<5, 5>> /\ prod = <<5, 2>> /\ cur = <<4, 1>>

\* x = d // 2, the floor of d / 2.
IsFloorHalf(x, d) == 2 * x <= d /\ d <= 2 * x + 1

\* C3: with center the paste offset is ((bw - w) // 2, (bh - h) // 2), floor
\* division, (w, h) being the product's size after the resize step, negative
\* when the product is larger than the background; without center it is (0, 0).
C3_PasteOffset ==
    fitPc = "pasted"
        => /\ cur = IF resize_product /\ TooBig THEN req ELSE prod
           /\ IF center
              THEN /\ IsFloorHalf(offset[1], bg[1] - cur[1])
                   /\ IsFloorHalf(offset[2], bg[2] - cur[2])
              ELSE offset = <<0, 0>>

\* A centred product wider than the background by an odd number of pixels.
C3_Witness ==
    /\ fitPc = "pasted" /\ center
    /\ cur[1] > bg[1] /\ (cur[1] - bg[1]) % 2 = 1
    /\ offset[1] < 0

\* C4: with resize_product a product within the 80% bound is pasted at its
\* original size; no product is ever pasted larger than it was; 100x100 on
\* 500x500 stays 100x100 at offset (200, 200).
C4_NeverUpscaled ==
    /\ (fitPc # "opened" /\ resize_product /\ ~TooBig)
        => (fitPc # "failed" /\ req = <<>> /\ cur = prod)
    /\ fitPc = "pasted" => (cur[1] <= prod[1] /\ cur[2] <= prod[2])
    /\ (fitPc = "pasted" /\ resize_product /\ center
            /\ bg = <<500, 500>> /\ prod = <<100, 100>>)
        => (cur = <<100, 100>> /\ offset = <<200, 200>>)

\* A product strictly inside the bound has been pasted.
C4_Witness ==
    /\ fitPc = "pasted" /\ resize_product /\ center
    /\ bg = <<500, 500>> /\ prod = <<100, 100>> /\ offset = <<200, 200>>

\* C10: whenever the downscale branch is taken, new_width and new_height are
\* both at least 1, and the fitting arithmetic fails no well-formed pair.
C10_NewSizePositive ==
    /\ req # <<>> => (req[1] >= 1 /\ req[2] >= 1)
    /\ fitPc # "failed"

-----------------------------------------------------------------------------
(* Paths.  os.path is posixpath. *)

\* The length of "_no_bg", which base_name[:-6] cuts.
NoBgLen == 6

NoBg == <<"_", "n", "o", "_", "b", "g">>

WithBgWebp == <<"_", "w", "i", "t", "h", "_", "b", "g", ".", "w", "e", "b", "p">>

NoBgWebp == <<"_", "n", "o", "_", "b", "g", ".", "w", "e", "b", "p">>

\* s.rfind(c), 1-based, 0 when c is not in s.
RFind(s, c) ==
    LET at == {i \in 1 .. Len(s) : s[i] = c}
    IN  IF at = {} THEN 0 ELSE CHOOSE i \in at : \A k \in at : k <= i

\* s.rstrip("/")
RECURSIVE RStripSep(_)
RStripSep(s) ==
    IF s # <<>> /\ s[Len(s)] = "/" THEN RStripSep(SubSeq(s, 1, Len(s) - 1)) ELSE s

\* os.path.basename(p)
Basename(p) == SubSeq(p, RFind(p, "/") + 1, Len(p))

\* os.path.dirname(p)
Dirname(p) ==
    LET head == SubSeq(p, 1, RFind(p, "/"))
    IN  IF head # <<>> /\ \E i \in 1 .. Len(head) : head[i] # "/"
        THEN RStripSep(head)
        ELSE head

\* Cutting at the first dot, as name.split(".")[0] would.
SplitFirstDot(p) ==
    LET dots == {i \in 1 .. Len(p) : p[i] = "."}
    IN  IF dots = {} THEN p
        ELSE SubSeq(p, 1, (CHOOSE i \in dots : \A k \in dots : i <= k) - 1)

\* os.path.splitext(p)[0]: p up to its last dot, when that dot follows the
\* last separator and a character other than a dot lies between them.
SplitextRoot(p) ==
    LET sepIndex == RFind(p, "/")
        dotIndex == RFind(p, ".")
    IN  IF dotIndex > sepIndex
           /\ \E k \in (sepIndex + 1) .. (dotIndex - 1) : p[k] # "."
        THEN SubSeq(p, 1, dotIndex - 1)
        ELSE p

\* s.endswith(suffix)
EndsWith(s, suffix) ==
    /\ Len(s) >= Len(suffix)
    /\ SubSeq(s, Len(s) - Len(suffix) + 1, Len(s)) = suffix

\* os.path.join(a, b)
Join(a, b) ==
    IF b # <<>> /\ b[1] = "/" THEN b
    ELSE IF a = <<>> \/ a[Len(a)] = "/" THEN a \o b
    ELSE a \o <<"/">> \o b

\* add_background's base_name.
AddBaseName(path) ==
    LET base_name == SplitextRoot(Basename(path))
    IN  IF EndsWith(base_name, NoBg)
        THEN SubSeq(base_name, 1, Len(base_name) - NoBgLen)
        ELSE base_name

\* add_background's output_path.
AddOutputPath(path, dir) ==
    IF dir # <<>>
    THEN Join(dir, AddBaseName(path) \o WithBgWebp)
    ELSE Join(IF Dirname(path) # <<>> THEN Dirname(path) ELSE <<".">>,
              AddBaseName(path) \o WithBgWebp)

\* remove_background's output_path.
RemoveOutputPath(path, dir) ==
    IF dir # <<>>
    THEN Join(dir, SplitextRoot(Basename(path)) \o NoBgWebp)
    ELSE Join(IF Dirname(path) # <<>> THEN Dirname(path) ELSE <<".">>,
              SplitextRoot(Basename(path)) \o NoBgWebp)

-----------------------------------------------------------------------------
(* add_background: the output path, for product paths built from a         *)
(* directory, a stem, an optional "_no_bg" and an extension.               *)

\* Directory prefixes: none, relative, nested, absolute, dotted.
NameDirs == {<<>>, <<"a", "/">>, <<"a", "/", "b", "/">>, <<"/">>, <<"a", ".", "b", "/">>}

\* Stems that do not end in "_no_bg"; the third holds a dot, the fourth is
\* hidden, the fifth holds "_no_bg" inside.
NameStems ==
    {<<"w", "i", "d", "g", "e", "t">>, <<"w">>, <<"w", ".", "x">>, <<".", "h">>,
     <<"w">> \o NoBg \o <<"x">>}

\* The stems before a "_no_bg" suffix: also none, and one ending in "_no_bg".
NameStemsBeforeNoBg == NameStems \cup {<<>>, <<"w">> \o NoBg}

\* Extensions: a dot and characters that hold neither a dot nor a separator.
NameExts == {<<".", "w", "e", "b", "p">>, <<".", "p">>, <<".", "x">> \o NoBg}

\* Stems that hold no dot after their first character: a name made of one
\* of them has no extension.
NameStemsNoExt == {<<"w", "i", "d", "g", "e", "t">>, <<"w">>, <<".", "h">>,
                   <<"w">> \o NoBg \o <<"x">>, <<"w">> \o NoBg}

\* <<directory, stem, "_no_bg" or nothing, extension or nothing>>
NameParts ==
    (NameDirs \X NameStems \X {<<>>} \X NameExts)
    \cup (NameDirs \X NameStemsBeforeNoBg \X {NoBg} \X NameExts)
    \cup (NameDirs \X (NameStems \cap NameStemsNoExt) \X {<<>>} \X {<<>>})
    \cup (NameDirs \X (NameStemsBeforeNoBg \cap (NameStemsNoExt \cup {<<>>})) \X {NoBg} \X {<<>>})

PathOf(t) == t[1] \o t[2] \o t[3] \o t[4]

NameOutputDirs == {<<>>, <<"o">>, <<"o", "/">>, <<"o", "/", "f">>}

InitName ==
    /\ \E t \in NameParts : product_path = PathOf(t)
    /\ output_dir \in NameOutputDirs
    /\ namePc = "start"
    /\ output_path = <<>>
    /\ IdleFit
    /\ IdleBatch

\* The output path is determined and the result saved there.
NameSave ==
    /\ namePc = "start"
    /\ output_path' = AddOutputPath(product_path, output_dir)
    /\ namePc' = "saved"
    /\ UNCHANGED <<product_path, output_dir>>
    /\ UNCHANGED <<fitVars, batchVars>>

NextName == NameSave

SpecName == InitName /\ [][NextName]_vars

\* d with exactly one separator at its end.
WithSep(d) == IF d[Len(d)] = "/" THEN d ELSE d \o <<"/">>

\* C5: the output file is named by the product's basename without its last
\* extension and without one trailing "_no_bg", followed by "_with_bg.webp";
\* it lies in output_dir when one is given, else in the product's directory.
C5_OutputName ==
    namePc = "saved"
        => \A t \in NameParts :
              product_path = PathOf(t)
                  => output_path =
                        (IF output_dir # <<>> THEN WithSep(output_dir)
                         ELSE IF t[1] = <<>> THEN <<".", "/">> ELSE t[1])
                        \o t[2] \o WithBgWebp

\* widget_no_bg.webp in a directory, no output_dir: widget_with_bg.webp there.
C5_Witness ==
    /\ namePc = "saved"
    /\ product_path = <<"a", "/", "w", "i", "d", "g", "e", "t">> \o NoBg
                          \o <<".", "w", "e", "b", "p">>
    /\ output_dir = <<>>
    /\ output_path = <<"a", "/", "w", "i", "d", "g", "e", "t">> \o WithBgWebp

-----------------------------------------------------------------------------
(* main(), process_batch() and the per-file pipeline of both tools. *)

\* The files a pattern may match: two that differ in extension, two that
\* differ in directory, two that differ in a trailing "_no_bg".
BatchPaths ==
    {<<"a", "/", "w", ".", "j">>, <<"a", "/", "w", ".", "p">>,
     <<"b", "/", "w", ".", "j">>, <<"a", "/", "w">> \o NoBg \o <<".", "p">>}

\* A literal input is one of these.
LiteralInputs == {<<"a", "/", "w", ".", "j">>, <<"a", "/", "w">> \o NoBg \o <<".", "p">>}

PatternInput == <<"*", "/", "*">>

BackgroundArg == <<"g", ".", "j">>

OutputDirArg == <<"o">>

\* any(char in product_input for char in ['*', '?', '[', ']'])
IsPattern(s) == \E i \in 1 .. Len(s) : s[i] \in {"*", "?", "[", "]"}

\* The lists glob.glob may return: distinct paths, in any order.
GlobResults ==
    {f \in UNION {[1 .. n -> BatchPaths] : n \in 0 .. MaxFiles} :
        \A i, k \in DOMAIN f : i # k => f[i] # f[k]}

ArgvOf(t) ==
    LET ins == {PatternInput} \cup LiteralInputs
    IN  IF t = "remove_bg"
        THEN {<<>>} \cup {<<i>> : i \in ins} \cup {<<i, OutputDirArg>> : i \in ins}
        ELSE {<<>>} \cup {<<i>> : i \in ins} \cup {<<i, BackgroundArg>> : i \in ins}
             \cup {<<i, BackgroundArg, OutputDirArg>> : i \in ins}

\* The process starts; what the file system will answer is fixed.  An answer
\* the run never asks for is left at its default.
Init ==
    /\ tool \in {"remove_bg", "add_bg"}
    /\ argv \in ArgvOf(tool)
    /\ globFiles \in GlobResults
    /\ (argv = <<>> \/ ~IsPattern(argv[1])) => globFiles = <<>>
    /\ inputExists \in BOOLEAN
    /\ (argv = <<>> \/ IsPattern(argv[1])) => inputExists = FALSE
    /\ bgExists \in BOOLEAN
    /\ (tool = "remove_bg" \/ Len(argv) < 2) => bgExists = FALSE
    /\ pc = "main"
    /\ files = <<>> /\ idx = 0 /\ successful = 0 /\ failed = 0
    /\ sessionsCreated = 0 /\ session = 0
    /\ calls = <<>> /\ written = <<>> /\ dirsMade = {} /\ decoded = 0
    /\ exitStatus = -1
    /\ IdleFit
    /\ IdleName

\* sys.exit(1)
Exit1 == pc' = "exit" /\ exitStatus' = 1

\* main returns
Return0 == pc' = "done" /\ exitStatus' = 0

\* session = new_session("u2net")
NewSession == sessionsCreated' = sessionsCreated + 1 /\ session' = sessionsCreated + 1

\* output_dir as main reads it from sys.argv.
RemoveOutDir == IF Len(argv) > 1 THEN argv[2] ELSE <<>>

AddOutDir == IF Len(argv) > 2 THEN argv[3] ELSE <<>>

\* How a per-file call ends: it returns the output path, or an exception is
\* caught before the output directory is made, or at the save.
Outcomes == {"ok", "raises_early", "raises_at_save"}

\* What the per-file function returns.
Result(outPath, outcome) == IF outcome = "ok" THEN outPath ELSE <<>>

\* One call of remove_background or add_background.
RunPipeline(path, dir, sess, outPath, outcome) ==
    /\ decoded' = decoded + 1
    /\ dirsMade' = IF outcome # "raises_early" /\ dir # <<>>
                   THEN dirsMade \cup {dir} ELSE dirsMade
    /\ written' = IF outcome = "ok" THEN Append(written, outPath) ELSE written
    /\ calls' = Append(calls, [path |-> path, session |-> sess,
                               raised |-> outcome # "ok",
                               result |-> Result(outPath, outcome)])

\* successful += 1 or failed += 1
Count(result) ==
    IF result # <<>>
    THEN successful' = successful + 1 /\ failed' = failed
    ELSE failed' = failed + 1 /\ successful' = successful

envVars == <<tool, argv, globFiles, inputExists, bgExists>>

ioVars == <<calls, written, dirsMade, decoded>>

\* ---- remove_bg.py

RemoveMain ==
    /\ tool = "remove_bg" /\ pc = "main"
    /\ IF Len(argv) < 1 THEN Exit1
       ELSE IF IsPattern(argv[1]) THEN pc' = "batch" /\ UNCHANGED exitStatus
       ELSE IF ~inputExists THEN Exit1
       ELSE pc' = "single" /\ UNCHANGED exitStatus
    /\ UNCHANGED <<envVars, ioVars, files, idx, successful, failed,
                   sessionsCreated, session>>
    /\ UNCHANGED <<fitVars, nameVars>>

RemoveProcessBatch ==
    /\ tool = "remove_bg" /\ pc = "batch"
    /\ files' = globFiles
    /\ IF globFiles = <<>>
       THEN Exit1 /\ UNCHANGED <<idx, successful, failed, sessionsCreated, session>>
       ELSE /\ NewSession
            /\ successful' = 0 /\ failed' = 0 /\ idx' = 1
            /\ pc' = "loop" /\ UNCHANGED exitStatus
    /\ UNCHANGED <<envVars, ioVars>>
    /\ UNCHANGED <<fitVars, nameVars>>

\* Without the session argument every call would load the model again.
RemoveBatchIterateNewSession ==
    /\ tool = "remove_bg" /\ pc = "loop" /\ idx <= Len(files)
    /\ NewSession
    /\ \E outcome \in Outcomes :
         LET out == RemoveOutputPath(files[idx], RemoveOutDir)
         IN  /\ RunPipeline(files[idx], RemoveOutDir, session', out, outcome)
             /\ Count(Result(out, outcome))
    /\ idx' = idx + 1
    /\ UNCHANGED <<envVars, files, pc, exitStatus>>
    /\ UNCHANGED <<fitVars, nameVars>>

RemoveBatchIterate ==
    /\ tool = "remove_bg" /\ pc = "loop" /\ idx <= Len(files)
    /\ \E outcome \in Outcomes :
         LET out == RemoveOutputPath(files[idx], RemoveOutDir)
         IN  /\ RunPipeline(files[idx], RemoveOutDir, session, out, outcome)
             /\ Count(Result(out, outcome))
    /\ idx' = idx + 1
    /\ UNCHANGED <<envVars, files, pc, exitStatus, sessionsCreated, session>>
    /\ UNCHANGED <<fitVars, nameVars>>

RemoveBatchFinish ==
    /\ tool = "remove_bg" /\ pc = "loop" /\ idx > Len(files)
    /\ Return0
    /\ UNCHANGED <<envVars, ioVars, files, idx, successful, failed,
                   sessionsCreated, session>>
    /\ UNCHANGED <<fitVars, nameVars>>

RemoveSingle ==
    /\ tool = "remove_bg" /\ pc = "single"
    /\ NewSession
    /\ \E outcome \in Outcomes :
         LET out == RemoveOutputPath(argv[1], RemoveOutDir)
         IN  /\ RunPipeline(argv[1], RemoveOutDir, session', out, outcome)
             /\ IF Result(out, outcome) # <<>> THEN Return0 ELSE Exit1
    /\ UNCHANGED <<envVars, files, idx, successful, failed>>
    /\ UNCHANGED <<fitVars, nameVars>>

\* ---- add_bg.py

\* Without main's check a missing background reaches the per-file call.
AddMainNoBackgroundCheck ==
    /\ tool = "add_bg" /\ pc = "main"
    /\ IF Len(argv) < 2 THEN Exit1
       ELSE IF IsPattern(argv[1]) THEN pc' = "batch" /\ UNCHANGED exitStatus
       ELSE IF ~inputExists THEN Exit1
       ELSE pc' = "single" /\ UNCHANGED exitStatus
    /\ UNCHANGED <<envVars, ioVars, files, idx, successful, failed,
                   sessionsCreated, session>>
    /\ UNCHANGED <<fitVars, nameVars>>

AddMain ==
    /\ tool = "add_bg" /\ pc = "main"
    /\ IF Len(argv) < 2 THEN Exit1
       ELSE IF ~bgExists THEN Exit1
       ELSE IF IsPattern(argv[1]) THEN pc' = "batch" /\ UNCHANGED exitStatus
       ELSE IF ~inputExists THEN Exit1
       ELSE pc' = "single" /\ UNCHANGED exitStatus
    /\ UNCHANGED <<envVars, ioVars, files, idx, successful, failed,
                   sessionsCreated, session>>
    /\ UNCHANGED <<fitVars, nameVars>>

AddProcessBatch ==
    /\ tool = "add_bg" /\ pc = "batch"
    /\ files' = globFiles
    /\ IF globFiles = <<>>
       THEN Exit1 /\ UNCHANGED <<idx, successful, failed>>
       ELSE IF ~bgExists
       THEN Exit1 /\ UNCHANGED <<idx, successful, failed>>
       ELSE /\ successful' = 0 /\ failed' = 0 /\ idx' = 1
            /\ pc' = "loop" /\ UNCHANGED exitStatus
    /\ UNCHANGED <<envVars, ioVars, sessionsCreated, session>>
    /\ UNCHANGED <<fitVars, nameVars>>

\* A loop that an exception leaves: the files after a bad one are skipped.
AddBatchIterateStopOnFailure ==
    /\ tool = "add_bg" /\ pc = "loop" /\ idx <= Len(files)
    /\ \E outcome \in Outcomes :
         LET out == AddOutputPath(files[idx], AddOutDir)
         IN  /\ RunPipeline(files[idx], AddOutDir, session, out, outcome)
             /\ Count(Result(out, outcome))
             /\ idx' = IF outcome = "ok" THEN idx + 1 ELSE Len(files) + 1
    /\ UNCHANGED <<envVars, files, pc, exitStatus, sessionsCreated, session>>
    /\ UNCHANGED <<fitVars, nameVars>>

AddBatchIterate ==
    /\ tool = "add_bg" /\ pc = "loop" /\ idx <= Len(files)
    /\ \E outcome \in Outcomes :
         LET out == AddOutputPath(files[idx], AddOutDir)
         IN  /\ RunPipeline(files[idx], AddOutDir, session, out, outcome)
             /\ Count(Result(out, outcome))
    /\ idx' = idx + 1
    /\ UNCHANGED <<envVars, files, pc, exitStatus, sessionsCreated, session>>
    /\ UNCHANGED <<fitVars, nameVars>>

AddBatchFinish ==
    /\ tool = "add_bg" /\ pc = "loop" /\ idx > Len(files)
    /\ Return0
    /\ UNCHANGED <<envVars, ioVars, files, idx, successful, failed,
                   sessionsCreated, session>>
    /\ UNCHANGED <<fitVars, nameVars>>

AddSingle ==
    /\ tool = "add_bg" /\ pc = "single"
    /\ \E outcome \in Outcomes :
         LET out == AddOutputPath(argv[1], AddOutDir)
         IN  /\ RunPipeline(argv[1], AddOutDir, session, out, outcome)
             /\ IF Result(out, outcome) # <<>> THEN Return0 ELSE Exit1
    /\ UNCHANGED <<envVars, files, idx, successful, failed, sessionsCreated, session>>
    /\ UNCHANGED <<fitVars, nameVars>>

Next ==
    \/ RemoveMain \/ RemoveProcessBatch \/ RemoveBatchIterate
    \/ RemoveBatchFinish \/ RemoveSingle
    \/ AddMain \/ AddProcessBatch \/ AddBatchIterate
    \/ AddBatchFinish \/ AddSingle

Spec == Init /\ [][Next]_vars

-----------------------------------------------------------------------------
(* Properties of the batch driver and of main, checked under Spec. *)

\* The run is a batch run: the arguments suffice and the input is a pattern.
BatchRun ==
    /\ Len(argv) >= (IF tool = "add_bg" THEN 2 ELSE 1)
    /\ IsPattern(argv[1])

\* C6: in batch mode of both tools the per-file pipeline is invoked exactly
\* once per matched path, in enumeration order, whatever fails; when the loop
\* ends successful + failed is the number of matched paths and failed is the
\* number of files whose processing raised.
C6_BatchCounts ==
    (BatchRun /\ pc \in {"loop", "done"})
        => /\ files = globFiles /\ files # <<>>
           /\ Len(calls) = idx - 1 /\ Len(calls) <= Len(files)
           /\ \A k \in 1 .. Len(calls) : calls[k].path = files[k]
           /\ successful + failed = Len(calls)
           /\ failed = Cardinality({k \in 1 .. Len(calls) : calls[k].raised})
           /\ pc = "done" => Len(calls) = Len(files)

\* A finished compositing batch whose first file failed and a later one did not.
C6_Witness ==
    /\ tool = "add_bg" /\ BatchRun /\ pc = "done"
    /\ Len(files) >= 3
    /\ calls[1].raised /\ ~calls[2].raised
    /\ failed >= 1 /\ successful >= 1

\* A usage error: too few arguments, no background file (compositing tool),
\* a pattern that matches nothing, a literal input that does not exist.
UsageError ==
    \/ Len(argv) < (IF tool = "add_bg" THEN 2 ELSE 1)
    \/ tool = "add_bg" /\ ~bgExists
    \/ IsPattern(argv[1]) /\ globFiles = <<>>
    \/ ~IsPattern(argv[1]) /\ ~inputExists

\* C7: on a usage error the process exits with status 1 before any per-file
\* pipeline is invoked: nothing is decoded, no file or directory is written.
C7_UsageErrorExits ==
    UsageError
        => /\ pc \in {"main", "batch", "exit"}
           /\ pc = "exit" => exitStatus = 1
           /\ pc # "exit" => exitStatus = -1
           /\ calls = <<>> /\ written = <<>> /\ dirsMade = {} /\ decoded = 0

\* The compositing tool has exited on a missing background, an output
\* directory being named.
C7_Witness ==
    /\ tool = "add_bg" /\ Len(argv) = 3 /\ ~bgExists
    /\ pc = "exit" /\ exitStatus = 1

\* C8: in a batch run of the segmentation tool the session is created exactly
\* once, after the matched set was found non-empty and before the first file,
\* and every per-file call receives that handle.
C8_SessionOnce ==
    (tool = "remove_bg" /\ BatchRun)
        => /\ sessionsCreated = (IF pc \in {"loop", "done"} THEN 1 ELSE 0)
           /\ pc \in {"loop", "done"} => (files # <<>> /\ session = 1)
           /\ calls # <<>> => sessionsCreated = 1
           /\ \A k \in 1 .. Len(calls) : calls[k].session = 1

\* A finished segmentation batch of several files, one of which failed.
C8_Witness ==
    /\ tool = "remove_bg" /\ BatchRun /\ pc = "done"
    /\ Len(calls) >= 3 /\ calls[2].raised /\ ~calls[3].raised
    /\ sessionsCreated = 1

\* C9: in one batch run no two matched paths resolve to the same output path,
\* so the distinct output files number the reported successes.
C9_DistinctOutputs ==
    (BatchRun /\ pc \in {"loop", "done"})
        => /\ \A i, k \in 1 .. Len(written) : i # k => written[i] # written[k]
           /\ Cardinality({written[i] : i \in 1 .. Len(written)}) = successful

=============================================================================
